---- MODULE Spec2Model ----
(***************************************************************************)
(* Model of the pngme chunk codec: chunk_type.rs (ChunkType) and chunk.rs   *)
(* (Chunk, crc).  Every operation of the crate is a pure function; a        *)
(* behaviour of the model is one session in which an input is chosen and    *)
(* the functions are applied to it in the order a caller can apply them.    *)
(*                                                                         *)
(* Numbers.  TLC integers are 32-bit signed, a u32 does not fit.  A u32 or  *)
(* usize n is the pair <<n \div 2^16, n % 2^16>>; a u32 has both limbs      *)
(* below 2^16, a usize may have a larger high limb.                         *)
(***************************************************************************)
EXTENDS Integers, Sequences, FiniteSets, TLC

\* input      the input of the session (a 4-byte array, a string, or a tag and
\*            a payload)
\* chunk_type <<>> or <<r>>, r the result of ChunkType::try_from / from_str
\* flags      <<>> or <<f>>, f the values of the five accessors on the tag
\* chunk      <<>> or <<c>>, c the Chunk built by Chunk::new or by try_from
\* big        <<>> or <<d>>, d the data_size Chunk::new stores for a payload
\*            too long for the model to hold byte by byte
\* data       the byte buffer handed to Chunk::try_from
\* origin     how data was made from the serialized chunk
\* parsed     <<>> or <<r>>, r the result of Chunk::try_from(data)
VARIABLES input, chunk_type, flags, chunk, big, data, origin, parsed

vars == <<input, chunk_type, flags, chunk, big, data, origin, parsed>>

(* ------------------------------ bounds -------------------------------- *)
MaxPayload == 2
MaxStrLen == 5
MaxExtra == 1

(* ----------------------------- input sets ----------------------------- *)
\* bytes tried in a 4-byte tag: both ends of A-Z and a-z, their outer
\* neighbours, and a non-ASCII byte
TagByteSet == {64, 65, 90, 91, 96, 97, 122, 123, 200}
\* code points tried in a string tag: R u 1, U+00E9 (2 bytes), U+20AC (3)
CharSet == {82, 117, 49, 233, 8364}
\* tags a Chunk is built with: "RuSt" (the tests' tag) and "AzZa"
RecordTags == {<<82, 117, 83, 116>>, <<65, 122, 90, 97>>}
PayloadBytes == {0, 255}
\* payload byte counts beyond what a sequence of the model can hold:
\* 2^32 - 1, 2^32, 2^32 + 5 (as limb pairs)
HugeLens == {<<65535, 65535>>, <<65536, 0>>, <<65536, 5>>}

SeqsUpTo(S, n) == UNION {[1..k -> S] : k \in 0..n}

(* --------------------------- limb arithmetic -------------------------- *)
Limb == 65536

usize(n) == <<n \div Limb, n % Limb>>

usize_add(n, x) == <<x[1] + ((x[2] + n) \div Limb), (x[2] + n) % Limb>>

usize_le(x, y) == x[1] < y[1] \/ (x[1] = y[1] /\ x[2] <= y[2])

\* `as u32` on a usize: truncation to the low 32 bits
as_u32(x) == <<x[1] % Limb, x[2]>>

\* `as usize` on a u32: zero extension
as_usize(x) == <<x[1], x[2]>>

\* value of a usize known to be small
to_int(x) == x[1] * Limb + x[2]

\* mutant: the four bytes read least significant first
u32_from_le_bytes(b) == <<b[4] * 256 + b[3], b[2] * 256 + b[1]>>

u32_from_be_bytes(b) == <<b[1] * 256 + b[2], b[3] * 256 + b[4]>>

(* -------------------------------- crc --------------------------------- *)
RECURSIVE Xor(_, _)
Xor(p, q) ==
    IF p = 0 THEN q
    ELSE IF q = 0 THEN p
    ELSE (((p % 2) + (q % 2)) % 2) + 2 * Xor(p \div 2, q \div 2)

\* CRC_32_ISO_HDLC: reflected polynomial 0xEDB88320, init and xorout
\* 0xFFFFFFFF
CrcPoly == <<60856, 33568>>

CrcInit == <<65535, 65535>>

CrcXorOut == <<65535, 65535>>

\* one step of the reflected shift register
crc_shift(r) ==
    LET s == <<r[1] \div 2, (r[2] \div 2) + (r[1] % 2) * 32768>>
    IN IF r[2] % 2 = 1 THEN <<Xor(s[1], CrcPoly[1]), Xor(s[2], CrcPoly[2])>>
       ELSE s

\* the 256-entry table Crc::new builds: entry i is eight steps from i
CrcTable ==
    [i \in 0..255 |->
        crc_shift(crc_shift(crc_shift(crc_shift(
        crc_shift(crc_shift(crc_shift(crc_shift(<<0, i>>))))))))]

\* the register after one more byte
crc_byte(reg, byte) ==
    LET entry == CrcTable[Xor(reg[2] % 256, byte)]
    IN <<Xor(reg[1] \div 256, entry[1]),
         Xor((reg[1] % 256) * 256 + (reg[2] \div 256), entry[2])>>

\* digest.update(bytes): the register after the first n bytes of bs
RECURSIVE crc_update(_, _)
crc_update(bs, n) ==
    IF n = 0 THEN CrcInit
    ELSE crc_byte(crc_update(bs, n - 1), bs[n])

\* digest.finalize() after digest.update(bs)
crc(bs) ==
    LET digest == crc_update(bs, Len(bs))
    IN <<Xor(digest[1], CrcXorOut[1]), Xor(digest[2], CrcXorOut[2])>>

(* ----------------------------- ChunkType ------------------------------ *)
is_ascii(b) == b <= 127

is_ascii_uppercase(b) == b >= 65 /\ b <= 90

is_ascii_lowercase(b) == b >= 97 /\ b <= 122

is_ascii_alphabetic(b) == is_ascii_uppercase(b) \/ is_ascii_lowercase(b)

\* raw[0] of the source is raw[1] here
bytes(t) == t.raw

is_critical(t) == is_ascii_uppercase(t.raw[1])

is_public(t) == is_ascii_uppercase(t.raw[2])

is_valid(t) == is_ascii_uppercase(t.raw[3])

\* mutant: the fourth byte tested like the other three
is_safe_to_copy_upper(t) == is_ascii_uppercase(t.raw[4])

is_safe_to_copy(t) == is_ascii_lowercase(t.raw[4])

is_reserved_bit_valid(t) == is_valid(t)

\* mutant: a byte is rejected only when both tests fail
RECURSIVE ChunkType_scan_and(_, _)
ChunkType_scan_and(raw_chunk_type, index) ==
    IF index >= Len(raw_chunk_type)
    THEN [kind |-> "Ok", raw |-> raw_chunk_type]
    ELSE LET byte == raw_chunk_type[index + 1]
         IN IF ~is_ascii(byte) /\ ~is_ascii_alphabetic(byte)
            THEN [kind |-> "InvalidByte", byte |-> byte, position |-> index]
            ELSE ChunkType_scan_and(raw_chunk_type, index + 1)

\* the for loop of try_from: index is 0-based as in the source
RECURSIVE ChunkType_scan(_, _)
ChunkType_scan(raw_chunk_type, index) ==
    IF index >= Len(raw_chunk_type)
    THEN [kind |-> "Ok", raw |-> raw_chunk_type]
    ELSE LET byte == raw_chunk_type[index + 1]
         IN IF ~is_ascii(byte) \/ ~is_ascii_alphabetic(byte)
            THEN [kind |-> "InvalidByte", byte |-> byte, position |-> index]
            ELSE ChunkType_scan(raw_chunk_type, index + 1)

\* mutant: no byte is checked
ChunkType_try_from_unchecked(raw_chunk_type) ==
    [kind |-> "Ok", raw |-> raw_chunk_type]

ChunkType_try_from(raw_chunk_type) == ChunkType_scan(raw_chunk_type, 0)

\* UTF-8 encoding of one code point: a &str holds its text in this form
utf8(c) ==
    IF c < 128 THEN <<c>>
    ELSE IF c < 2048 THEN <<192 + (c \div 64), 128 + (c % 64)>>
    ELSE IF c < 65536
    THEN <<224 + (c \div 4096), 128 + ((c \div 64) % 64), 128 + (c % 64)>>
    ELSE <<240 + (c \div 262144), 128 + ((c \div 4096) % 64),
           128 + ((c \div 64) % 64), 128 + (c % 64)>>

RECURSIVE as_bytes(_)
as_bytes(s) == IF s = <<>> THEN <<>> ELSE utf8(Head(s)) \o as_bytes(Tail(s))

\* mutant: the length test counts characters
from_str_chars(str_chunk) ==
    LET str_chunk_bytes == as_bytes(str_chunk)
        chunk_size == Len(str_chunk)
    IN IF Len(str_chunk) # 4
       THEN [kind |-> "InvalidSize", size |-> chunk_size]
       ELSE ChunkType_try_from(SubSeq(str_chunk_bytes, 1, 4))

from_str(str_chunk) ==
    LET str_chunk_bytes == as_bytes(str_chunk)
        chunk_size == Len(str_chunk_bytes)
    IN IF Len(str_chunk_bytes) # 4
       THEN [kind |-> "InvalidSize", size |-> chunk_size]
       ELSE ChunkType_try_from(SubSeq(str_chunk_bytes, 1, 4))

(* -------------------------------- Chunk ------------------------------- *)
\* data.len() as u32
Chunk_new_data_size(len) == as_u32(len)

\* mutant: the checksum leaves the tag bytes out
Chunk_new_payload_crc(ct, d) ==
    [chunk_type |-> ct,
     data_size |-> Chunk_new_data_size(usize(Len(d))),
     chunk_data |-> d,
     crc |-> crc(d)]

Chunk_new(ct, d) ==
    [chunk_type |-> ct,
     data_size |-> Chunk_new_data_size(usize(Len(d))),
     chunk_data |-> d,
     crc |-> crc(bytes(ct) \o d)]

Chunk_try_from(d) ==
    IF Len(d) < 8 THEN [kind |-> "NotEnoughData"]
    ELSE
    LET data_size == as_usize(u32_from_be_bytes(SubSeq(d, 1, 4)))
        ct == ChunkType_try_from(SubSeq(d, 5, 8))
        end == usize_add(8, data_size)
    IN IF ct.kind # "Ok" THEN ct
       ELSE IF ~usize_le(end, usize(Len(d)))
       THEN [kind |-> "Panic", line |-> 48]
       ELSE
       LET chunk_data == SubSeq(d, 9, to_int(end))
           valid_crc == crc(bytes(ct) \o chunk_data)
           rest == SubSeq(d, to_int(end) + 1, Len(d))
       IN IF Len(rest) # 4 THEN [kind |-> "Panic", line |-> 56]
          ELSE
          LET found == u32_from_be_bytes(rest)
          IN IF found # valid_crc
             THEN [kind |-> "InvalidCrc", expected |-> valid_crc,
                   found |-> found]
             ELSE [kind |-> "Ok",
                   chunk |-> [chunk_type |-> ct,
                              data_size |-> as_u32(data_size),
                              chunk_data |-> chunk_data,
                              crc |-> found]]

length(c) == c.data_size

u32_to_be_bytes(x) == <<x[1] \div 256, x[1] % 256, x[2] \div 256, x[2] % 256>>

serialize(c) ==
    u32_to_be_bytes(c.data_size) \o bytes(c.chunk_type) \o c.chunk_data
        \o u32_to_be_bytes(c.crc)

(* ------------------------------- session ------------------------------ *)
Input(k, raw, s, payload, len) ==
    [kind |-> k, raw |-> raw, s |-> s, payload |-> payload, len |-> len]

Origin(k, pos, bit) == [kind |-> k, pos |-> pos, bit |-> bit]

Inputs ==
    {Input("bytes", raw, <<>>, <<>>, <<0, 0>>) : raw \in [1..4 -> TagByteSet]}
    \cup {Input("str", <<>>, s, <<>>, <<0, 0>>) : s \in SeqsUpTo(CharSet, MaxStrLen)}
    \cup {Input("record", raw, <<>>, p, usize(Len(p))) :
            raw \in RecordTags, p \in SeqsUpTo(PayloadBytes, MaxPayload)}
    \cup {Input("big", raw, <<>>, <<>>, n) : raw \in RecordTags, n \in HugeLens}

Init ==
    /\ input \in Inputs
    /\ chunk_type = <<>>
    /\ flags = <<>>
    /\ chunk = <<>>
    /\ big = <<>>
    /\ data = <<>>
    /\ origin = Origin("none", 0, 0)
    /\ parsed = <<>>

\* ChunkType::try_from(input.raw)
TryFromBytes ==
    /\ input.kind \in {"bytes", "record", "big"}
    /\ chunk_type = <<>>
    /\ chunk_type' = <<ChunkType_try_from(input.raw)>>
    /\ UNCHANGED <<input, flags, chunk, big, data, origin, parsed>>

\* ChunkType::from_str(input.s)
FromStr ==
    /\ input.kind = "str"
    /\ chunk_type = <<>>
    /\ chunk_type' = <<from_str(input.s)>>
    /\ UNCHANGED <<input, flags, chunk, big, data, origin, parsed>>

\* the five accessors, called on a tag that was built
Flags ==
    /\ input.kind \in {"bytes", "str"}
    /\ chunk_type # <<>>
    /\ chunk_type[1].kind = "Ok"
    /\ flags = <<>>
    /\ flags' = <<[is_critical |-> is_critical(chunk_type[1]),
                   is_public |-> is_public(chunk_type[1]),
                   is_valid |-> is_valid(chunk_type[1]),
                   is_safe_to_copy |-> is_safe_to_copy(chunk_type[1]),
                   is_reserved_bit_valid |-> is_reserved_bit_valid(chunk_type[1]),
                   bytes |-> bytes(chunk_type[1])]>>
    /\ UNCHANGED <<input, chunk_type, chunk, big, data, origin, parsed>>

\* Chunk::new(chunk_type, input.payload)
New ==
    /\ input.kind = "record"
    /\ chunk_type # <<>>
    /\ chunk_type[1].kind = "Ok"
    /\ chunk = <<>>
    /\ chunk' = <<Chunk_new(chunk_type[1], input.payload)>>
    /\ UNCHANGED <<input, chunk_type, flags, big, data, origin, parsed>>

\* Chunk::new(chunk_type, payload) for a payload of input.len bytes, of which
\* only the stored data_size is modelled
NewBig ==
    /\ input.kind = "big"
    /\ chunk_type # <<>>
    /\ chunk_type[1].kind = "Ok"
    /\ big = <<>>
    /\ big' = <<[kind |-> "Ok", data_size |-> Chunk_new_data_size(input.len)]>>
    /\ UNCHANGED <<input, chunk_type, flags, chunk, data, origin, parsed>>

\* the chunk written out in the wire layout
Serialize ==
    /\ chunk # <<>>
    /\ origin.kind = "none"
    /\ data' = serialize(chunk[1])
    /\ origin' = Origin("serialized", 0, 0)
    /\ UNCHANGED <<input, chunk_type, flags, chunk, big, parsed>>

FlipBit(b, k) == IF (b \div (2 ^ k)) % 2 = 1 THEN b - (2 ^ k) ELSE b + (2 ^ k)

\* one bit of the serialized chunk is flipped: byte pos (1-based), bit k
Flip ==
    /\ origin.kind = "serialized"
    /\ parsed = <<>>
    /\ \E pos \in 1..Len(data), k \in 0..7 :
          /\ data' = [data EXCEPT ![pos] = FlipBit(data[pos], k)]
          /\ origin' = Origin("flipped", pos, k)
    /\ UNCHANGED <<input, chunk_type, flags, chunk, big, parsed>>

\* the last byte of the buffer is dropped
Truncate ==
    /\ origin.kind \in {"serialized", "truncated"}
    /\ parsed = <<>>
    /\ Len(data) > 0
    /\ data' = SubSeq(data, 1, Len(data) - 1)
    /\ origin' = Origin("truncated", 0, 0)
    /\ UNCHANGED <<input, chunk_type, flags, chunk, big, parsed>>

\* a byte is appended to the buffer
Extend ==
    /\ origin.kind \in {"serialized", "extended"}
    /\ parsed = <<>>
    /\ Len(data) < Len(serialize(chunk[1])) + MaxExtra
    /\ \E b \in PayloadBytes : data' = Append(data, b)
    /\ origin' = Origin("extended", 0, 0)
    /\ UNCHANGED <<input, chunk_type, flags, chunk, big, parsed>>

\* Chunk::try_from(data)
Parse ==
    /\ origin.kind # "none"
    /\ parsed = <<>>
    /\ parsed' = <<Chunk_try_from(data)>>
    /\ UNCHANGED <<input, chunk_type, flags, chunk, big, data, origin>>

\* the Chunk returned by try_from is written out again
Reserialize ==
    /\ parsed # <<>>
    /\ parsed[1].kind = "Ok"
    /\ origin.kind # "reserialized"
    /\ chunk' = <<parsed[1].chunk>>
    /\ data' = serialize(parsed[1].chunk)
    /\ origin' = Origin("reserialized", 0, 0)
    /\ parsed' = <<>>
    /\ UNCHANGED <<input, chunk_type, flags, big>>

Next ==
    \/ TryFromBytes
    \/ FromStr
    \/ Flags
    \/ New
    \/ NewBig
    \/ Serialize
    \/ Flip
    \/ Truncate
    \/ Extend
    \/ Parse
    \/ Reserialize

Spec == Init /\ [][Next]_vars

(* ------------------------------- claims ------------------------------- *)
Letters == (65..90) \cup (97..122)

\* the length field of a buffer of at least 4 bytes, as a limb pair
DeclaredLen(d) == <<d[1] * 256 + d[2], d[3] * 256 + d[4]>>

\* the last four bytes of a buffer, as a limb pair
Trailing(d) ==
    <<d[Len(d) - 3] * 256 + d[Len(d) - 2], d[Len(d) - 1] * 256 + d[Len(d)]>>

ValidTagAt(d) == Len(d) >= 8 /\ \A i \in 5..8 : d[i] \in Letters

\* the buffer is exactly header, declared payload and checksum
ExactlyFramed(d) ==
    /\ Len(d) >= 12
    /\ ValidTagAt(d)
    /\ DeclaredLen(d) = <<0, Len(d) - 12>>

SameChunk(c1, c2) ==
    /\ length(c1) = length(c2)
    /\ bytes(c1.chunk_type) = bytes(c2.chunk_type)
    /\ c1.chunk_data = c2.chunk_data
    /\ c1.crc = c2.crc

\* C1: parsing the serialization of a Chunk built by Chunk::new, or of a
\* Chunk returned by try_from, succeeds and returns a Chunk with the same
\* length, tag bytes, payload bytes and crc.
C1_RoundTrip ==
    (origin.kind \in {"serialized", "reserialized"} /\ parsed # <<>>)
        => /\ parsed[1].kind = "Ok"
           /\ SameChunk(parsed[1].chunk, chunk[1])
           /\ chunk[1].chunk_data = input.payload
           /\ bytes(chunk[1].chunk_type) = input.raw

C1_Witness ==
    /\ origin.kind = "reserialized"
    /\ parsed # <<>>
    /\ parsed[1].kind = "Ok"
    /\ Len(parsed[1].chunk.chunk_data) >= 1

\* C2: every Chunk, built by Chunk::new or returned by try_from, has
\* crc = CRC32(tag bytes ++ payload bytes); try_from returns a Chunk only
\* when the trailing four bytes equal the CRC over bytes 4..8+L, and on a
\* mismatch returns the checksum error with the expected and the found value.
C2_CrcInvariant ==
    /\ chunk # <<>> =>
          chunk[1].crc = crc(chunk[1].chunk_type.raw \o chunk[1].chunk_data)
    /\ (parsed # <<>> /\ parsed[1].kind = "Ok") =>
          /\ parsed[1].chunk.crc =
                crc(parsed[1].chunk.chunk_type.raw \o parsed[1].chunk.chunk_data)
          /\ Len(data) >= 12
          /\ Trailing(data) = crc(SubSeq(data, 5, Len(data) - 4))
    /\ (parsed # <<>> /\ ExactlyFramed(data)
            /\ Trailing(data) # crc(SubSeq(data, 5, Len(data) - 4))) =>
          parsed[1] = [kind |-> "InvalidCrc",
                       expected |-> crc(SubSeq(data, 5, Len(data) - 4)),
                       found |-> Trailing(data)]
    /\ (parsed # <<>> /\ parsed[1].kind = "InvalidCrc") =>
          parsed[1].found # parsed[1].expected

C2_Witness ==
    /\ origin.kind = "flipped"
    /\ origin.pos > Len(data) - 4
    /\ parsed # <<>>
    /\ parsed[1].kind = "InvalidCrc"

\* C3: try_from of a buffer shorter than 12 bytes returns the too-short
\* error and does not panic.
C3_MinimumSize ==
    (parsed # <<>> /\ Len(data) < 12) => parsed[1].kind = "NotEnoughData"

\* C4: try_from of a buffer of at least 12 bytes with a valid tag whose
\* length field declares L with Len < 8 + L + 4 returns the too-short error
\* and does not panic.
C4_DeclaredLength ==
    (parsed # <<>> /\ Len(data) >= 12 /\ ValidTagAt(data)
        /\ ~usize_le(usize_add(12, DeclaredLen(data)), usize(Len(data))))
        => parsed[1].kind = "NotEnoughData"

InTamperRegion == origin.kind = "flipped" /\ origin.pos >= 5

\* C5 as stated: one flipped bit in the tag, payload or checksum region of a
\* serialized Chunk makes try_from return the checksum error.
C5_TamperOriginal ==
    (InTamperRegion /\ parsed # <<>>) => parsed[1].kind = "InvalidCrc"

\* C5 amended: one flipped bit in the payload or checksum region makes
\* try_from return the checksum error; one flipped bit in the tag region
\* makes it return the invalid-byte error (that byte, its position) when the
\* flipped byte is no longer a letter, and the checksum error otherwise.
C5_TamperAmended ==
    (InTamperRegion /\ parsed # <<>>) =>
        IF origin.pos \in 5..8 /\ data[origin.pos] \notin Letters
        THEN parsed[1] = [kind |-> "InvalidByte", byte |-> data[origin.pos],
                          position |-> origin.pos - 5]
        ELSE parsed[1].kind = "InvalidCrc"

C5_Witness ==
    /\ InTamperRegion
    /\ origin.pos = 6
    /\ parsed # <<>>
    /\ parsed[1].kind = "InvalidByte"

BadIndexes(b) == {i \in 1..Len(b) : b[i] \notin Letters}

FirstBad(b) == CHOOSE i \in BadIndexes(b) : \A j \in BadIndexes(b) : i <= j

\* C6: ChunkType::try_from(b) succeeds iff all four bytes are letters, and
\* then bytes() is b; otherwise it reports the value and the (0-based)
\* position of the first byte that is not a letter.
C6_TagValidation ==
    /\ (input.kind = "bytes" /\ chunk_type # <<>>) =>
          IF BadIndexes(input.raw) = {}
          THEN chunk_type[1] = [kind |-> "Ok", raw |-> input.raw]
          ELSE chunk_type[1] =
                  [kind |-> "InvalidByte",
                   byte |-> input.raw[FirstBad(input.raw)],
                   position |-> FirstBad(input.raw) - 1]
    /\ (input.kind = "bytes" /\ flags # <<>>) => flags[1].bytes = input.raw

C6_Witness ==
    /\ input.kind = "bytes"
    /\ chunk_type # <<>>
    /\ chunk_type[1].kind = "InvalidByte"
    /\ chunk_type[1].position = 1
    /\ input.raw[4] \notin Letters

\* number of bytes of the UTF-8 form of a code point
CharWidth(c) == IF c < 128 THEN 1 ELSE IF c < 2048 THEN 2 ELSE IF c < 65536 THEN 3 ELSE 4

RECURSIVE ByteLen(_)
ByteLen(s) == IF s = <<>> THEN 0 ELSE CharWidth(Head(s)) + ByteLen(Tail(s))

IsAscii(s) == \A i \in 1..Len(s) : s[i] < 128

\* C7 as stated: from_str(s) returns the wrong-length error iff s does not
\* have exactly 4 characters, and for 4 characters the result of try_from.
C7_FromStrOriginal ==
    (input.kind = "str" /\ chunk_type # <<>>) =>
        /\ (chunk_type[1].kind = "InvalidSize") <=> (Len(input.s) # 4)
        /\ (Len(input.s) = 4 /\ IsAscii(input.s)) =>
              chunk_type[1] = ChunkType_try_from(input.s)

\* C7 amended: from_str(s) returns the wrong-length error, carrying the
\* byte count, iff the UTF-8 form of s does not have exactly 4 bytes; when
\* it has 4 bytes the result is that of try_from on those bytes, so a
\* 4-letter ASCII string gives what try_from gives on its code units.
C7_FromStrAmended ==
    (input.kind = "str" /\ chunk_type # <<>>) =>
        /\ (chunk_type[1].kind = "InvalidSize") <=> (ByteLen(input.s) # 4)
        /\ (ByteLen(input.s) # 4) =>
              chunk_type[1] = [kind |-> "InvalidSize", size |-> ByteLen(input.s)]
        /\ (ByteLen(input.s) = 4) =>
              chunk_type[1] = ChunkType_try_from(as_bytes(input.s))
        /\ (Len(input.s) = 4 /\ IsAscii(input.s)) =>
              chunk_type[1] = ChunkType_try_from(input.s)

C7_Witness ==
    /\ input.kind = "str"
    /\ Len(input.s) = 2
    /\ ByteLen(input.s) = 4
    /\ chunk_type # <<>>
    /\ chunk_type[1].kind = "InvalidByte"

\* C8: is_critical iff byte 0 is uppercase, is_public iff byte 1 is
\* uppercase, is_valid and is_reserved_bit_valid iff byte 2 is uppercase,
\* is_safe_to_copy iff byte 3 is lowercase; the tag bytes are unchanged.
C8_FlagDerivation ==
    flags # <<>> =>
        /\ chunk_type[1].kind = "Ok"
        /\ flags[1].is_critical = (chunk_type[1].raw[1] \in 65..90)
        /\ flags[1].is_public = (chunk_type[1].raw[2] \in 65..90)
        /\ flags[1].is_valid = (chunk_type[1].raw[3] \in 65..90)
        /\ flags[1].is_reserved_bit_valid = (chunk_type[1].raw[3] \in 65..90)
        /\ flags[1].is_safe_to_copy = (chunk_type[1].raw[4] \in 97..122)
        /\ flags[1].bytes = chunk_type[1].raw
        /\ chunk_type[1].raw =
              IF input.kind = "bytes" THEN input.raw ELSE as_bytes(input.s)

C8_Witness ==
    /\ flags # <<>>
    /\ flags[1].is_critical
    /\ ~flags[1].is_public
    /\ flags[1].is_valid
    /\ ~flags[1].is_safe_to_copy

\* C9: Chunk::new stores the payload byte count as the length when it fits
\* in 32 bits, and fails with the payload-too-large error when it does not.
C9_DeclaredLength ==
    /\ (chunk # <<>> /\ origin.kind = "none") =>
          length(chunk[1]) = <<0, Len(input.payload)>>
    /\ big # <<>> =>
          IF input.len[1] < Limb
          THEN big[1] = [kind |-> "Ok", data_size |-> input.len]
          ELSE big[1].kind = "PayloadTooLarge"

\* C10: try_from of a buffer with a valid tag and more than 8 + L + 4 bytes
\* returns a Chunk or an error, never panics; a Chunk it returns has length
\* L and payload bytes 8..8+L.
C10_OverLong ==
    (parsed # <<>> /\ ValidTagAt(data)
        /\ ~usize_le(usize(Len(data)), usize_add(12, DeclaredLen(data))))
        => /\ parsed[1].kind # "Panic"
           /\ parsed[1].kind = "Ok" =>
                 /\ length(parsed[1].chunk) = DeclaredLen(data)
                 /\ parsed[1].chunk.chunk_data =
                       SubSeq(data, 9, 8 + to_int(DeclaredLen(data)))

====
